---- MODULE Spec2Model ----
(***************************************************************************)
(* State-machine model of the Raspberry Pi GPIO character-LCD driver       *)
(* (lcd-mod.c): module load (rpigpio_lcd_minit, req_gpio, lcd_init),       *)
(* the word transmitter lcd_write, the file operations lcd_open,           *)
(* lcd_ioctl and lcd_release, and module unload (rpigpio_lcd_mcleanup).    *)
(*                                                                         *)
(* Contexts: "load" (insmod), "unload" (rmmod) and the user processes in   *)
(* Sessions.  Every GPIO call, lock call and delay of the driver is one    *)
(* step, so that contexts interleave between any two calls, as they do on  *)
(* an SMP or preemptible kernel.                                           *)
(*                                                                         *)
(* The host side is modelled by what the driver's calls do to it:          *)
(*  - gpio_request fails on a line that is held, by this driver or by      *)
(*    another component; gpio_free and gpio_set_value act on the line      *)
(*    whoever holds it;                                                    *)
(*  - the node "lcd" exists from device_create to device_destroy;          *)
(*    class_destroy and unregister_chrdev do not remove it;                *)
(*  - a process can open the node once it exists and the major is          *)
(*    registered, also while the load is still running; rmmod runs only    *)
(*    on a loaded module that no process has open;                         *)
(*  - lcd.lock is static storage: all zero, the unlocked pattern, until    *)
(*    spin_lock_init writes the unlocked pattern again; spin_lock waits    *)
(*    while somebody holds the lock;                                       *)
(*  - spin_lock_init races with a close that is inside the lock.  What     *)
(*    that close's spin_unlock then does to a lock nobody holds depends    *)
(*    on the build: a lock word stays unlocked, a ticket lock serves a     *)
(*    ticket nobody has taken (Skewed), and the next spin_lock takes the   *)
(*    ticket that was skipped and waits for it without end.  Both          *)
(*    outcomes are in the model.                                           *)
(***************************************************************************)
EXTENDS Integers, Sequences, FiniteSets, TLC

\* ------------------------------------------------------------------ bounds

\* number of user processes that may hold the device open
NumSessions == 2
\* how many of the seven lines another component may hold before load
MaxPreclaimed == 1
\* ioctl calls tried: cmd in 0..MaxReq, with arg = MaxReq - cmd
MaxReq == 1

Sessions == 1..NumSessions

\* the execution contexts, as lcd.lock's holder names them
NoCtx == <<"none", 0>>
LoadCtx == <<"load", 0>>
UnloadCtx == <<"unload", 0>>
SessCtx(s) == <<"session", s>>
\* lcd.lock after an unlock nobody was due: it serves a ticket not taken
Skewed == <<"skewed", 0>>
IoctlReqs == {[cmd |-> c, arg |-> MaxReq - c] : c \in 0..MaxReq}

\* ------------------------------------------------------- program constants

EINVAL == 22
UDELAY == 50

\* the physical lines behind RS, RW, E, DB4, DB5, DB6, DB7
RS == 4
RW == 17
E == 18
DB4 == 22
DB5 == 23
DB6 == 24
DB7 == 25

\* the order in which req_gpio requests (and the release paths free) them
ReqOrder == <<4, 17, 18, 22, 23, 24, 25>>
Lines == {ReqOrder[i] : i \in 1..Len(ReqOrder)}
NLines == Len(ReqOrder)

\* the predefined command words, most significant nibble first
reset       == <<0,0,0,0,0,0,0,0>>
clear       == <<0,0,0,0,0,0,0,1>>
home        == <<0,0,0,0,0,0,1,0>>
entry       == <<0,0,0,0,0,1,1,0>>
displayon   == <<0,0,0,0,1,1,1,1>>
displayoff  == <<0,0,0,0,1,0,0,0>>
functionset == <<0,0,1,0,0,0,0,0>>
startup1    == <<0,0,1,1,0,0,1,1>>
startup2    == <<0,0,1,1,0,0,1,0>>
a           == <<0,1,0,1,0,0,0,1>>

Bit == {0, 1}
Words == [1..8 -> Bit]

\* ------------------------------------------------------------------- state

VARIABLES
    owner,      \* owner[l]: who holds line l in the GPIO subsystem
    dir,        \* dir[l]: "unset" or "out"
    level,      \* level[l]: the output level last driven on line l
    lock,       \* lcd.lock: NoCtx, the context holding it, or Skewed
    lockInit,   \* whether spin_lock_init has run on lcd.lock
    chrdev,     \* lcd.lcd_mjr names a registered character device
    lcd_class,  \* lcd.lcd_class exists
    devnode,    \* the device node "lcd" exists
    lpc,        \* position of the load context
    upc,        \* position of the unload context
    spc,        \* spc[s]: position of session s
    sret,       \* sret[s]: what the last file operation of s returned
    w,          \* the running lcd_write call: its data and next statement
    trace,      \* the line events and delays of the running lcd_write call
    latched,    \* the nibbles the controller latched in the running call
    txLog,      \* the words passed to lcd_write so far, with RS at the call
    ulog,       \* what rpigpio_lcd_mcleanup has called after its lcd_write
    ioctlKept   \* every lcd_ioctl call so far returned -EINVAL and changed
                \* no line, lock or device state

vars == <<owner, dir, level, lock, lockInit, chrdev, lcd_class, devnode,
          lpc, upc, spc, sret, w, trace, latched, txLog, ulog,
          ioctlKept>>

hw == <<owner, dir, level>>
host == <<chrdev, lcd_class, devnode>>

\* ----------------------------------------------------- the GPIO subsystem

\* gpio_request succeeds exactly on a line nobody holds
gpio_request_ok(o, l) == o[l] = "free"
gpio_request(o, l) == [o EXCEPT ![l] = "driver"]
\* gpio_free drops the line's requested flag, whoever holds it
gpio_free(o, l) == [o EXCEPT ![l] = "free"]
gpio_direction_output(d, l) == [d EXCEPT ![l] = "out"]
gpio_set_value(lv, l, v) == [lv EXCEPT ![l] = v]

Held(o) == {l \in Lines : o[l] = "driver"}

\* ------------------------------------------------------------------- Init

At(pc, at) == pc.at = at
Pc(at, i) == [at |-> at, i |-> i]

PreclaimSets == {S \in SUBSET Lines : Cardinality(S) <= MaxPreclaimed}

NoWrite == [data |-> reset, k |-> 0]

InitCommon ==
    /\ dir = [l \in Lines |-> "unset"]
    /\ level = [l \in Lines |-> 0]
    /\ lock = NoCtx
    /\ lockInit = FALSE
    /\ upc = Pc("idle", 0)
    /\ spc = [s \in Sessions |-> Pc("closed", 0)]
    /\ sret = [s \in Sessions |-> 0]
    /\ trace = <<>>
    /\ latched = <<>>
    /\ ulog = <<>>
    /\ ioctlKept = TRUE

Init ==
    /\ InitCommon
    /\ owner \in {[l \in Lines |-> IF l \in S THEN "other" ELSE "free"] :
                    S \in PreclaimSets}
    /\ chrdev = FALSE
    /\ lcd_class = FALSE
    /\ devnode = FALSE
    /\ lpc = Pc("register_chrdev", 0)
    /\ w = NoWrite
    /\ txLog = <<>>

\* ------------------------------------------------------------ lcd_write

Ev(op, l, v) == [op |-> op, line |-> l, val |-> v]

\* lcd_write with the two nibbles sent in the wrong order
WriteOps_LowNibbleFirst(data) ==
    << Ev("set", DB7, data[5]), Ev("set", DB6, data[6]),
       Ev("set", DB5, data[7]), Ev("set", DB4, data[8]),
       Ev("set", E, 1), Ev("udelay", 0, UDELAY),
       Ev("set", E, 0), Ev("udelay", 0, UDELAY),
       Ev("set", DB7, data[1]), Ev("set", DB6, data[2]),
       Ev("set", DB5, data[3]), Ev("set", DB4, data[4]),
       Ev("set", E, 1), Ev("udelay", 0, UDELAY),
       Ev("set", E, 0), Ev("udelay", 0, UDELAY) >>

\* lcd_write putting the low nibble on the data lines while E is still high
WriteOps_DataWhileEHigh(data) ==
    << Ev("set", DB7, data[1]), Ev("set", DB6, data[2]),
       Ev("set", DB5, data[3]), Ev("set", DB4, data[4]),
       Ev("set", E, 1), Ev("udelay", 0, UDELAY),
       Ev("set", DB7, data[5]), Ev("set", DB6, data[6]),
       Ev("set", DB5, data[7]), Ev("set", DB4, data[8]),
       Ev("set", E, 0), Ev("udelay", 0, UDELAY),
       Ev("set", E, 1), Ev("udelay", 0, UDELAY),
       Ev("set", E, 0), Ev("udelay", 0, UDELAY) >>

\* lcd_write returning as soon as it has lowered E for the second time
WriteOps_NoSettle(data) ==
    << Ev("set", DB7, data[1]), Ev("set", DB6, data[2]),
       Ev("set", DB5, data[3]), Ev("set", DB4, data[4]),
       Ev("set", E, 1), Ev("udelay", 0, UDELAY),
       Ev("set", E, 0), Ev("udelay", 0, UDELAY),
       Ev("set", DB7, data[5]), Ev("set", DB6, data[6]),
       Ev("set", DB5, data[7]), Ev("set", DB4, data[8]),
       Ev("set", E, 1), Ev("udelay", 0, UDELAY),
       Ev("set", E, 0) >>

\* the sixteen statements of lcd_write(data), in program order
WriteOps(data) ==
    << Ev("set", DB7, data[1]), Ev("set", DB6, data[2]),
       Ev("set", DB5, data[3]), Ev("set", DB4, data[4]),
       Ev("set", E, 1), Ev("udelay", 0, UDELAY),
       Ev("set", E, 0), Ev("udelay", 0, UDELAY),
       Ev("set", DB7, data[5]), Ev("set", DB6, data[6]),
       Ev("set", DB5, data[7]), Ev("set", DB4, data[8]),
       Ev("set", E, 1), Ev("udelay", 0, UDELAY),
       Ev("set", E, 0), Ev("udelay", 0, UDELAY) >>

NWriteOps == Len(WriteOps(reset))

\* what DB7..DB4 carry
Nibble(lv) == <<lv[DB7], lv[DB6], lv[DB5], lv[DB4]>>

\* the controller latches DB7..DB4 on a falling edge of E
Latch(lat, lv, s) ==
    IF s.op = "set" /\ s.line = E /\ s.val = 0 /\ lv[E] = 1
    THEN Append(lat, Nibble(lv))
    ELSE lat

InWrite == w.k \in 1..NWriteOps
WriteReturning == w.k = NWriteOps + 1
NextStmt == WriteOps(w.data)[w.k]

\* entering lcd_write(data)
CallWrite(data) ==
    /\ w.k = 0
    /\ w' = [data |-> data, k |-> 1]
    /\ trace' = <<>>
    /\ latched' = <<>>
    /\ txLog' = Append(txLog, [data |-> data, rs |-> level[RS]])
    /\ UNCHANGED <<ulog, ioctlKept>>

\* return 0 from lcd_write
ReturnWrite ==
    /\ WriteReturning
    /\ w' = [w EXCEPT !.k = 0]
    /\ UNCHANGED <<trace, latched, txLog, ioctlKept, ulog>>

\* one statement of the running lcd_write call
lcd_write ==
    /\ InWrite
    /\ level' = IF NextStmt.op = "set"
                THEN gpio_set_value(level, NextStmt.line, NextStmt.val)
                ELSE level
    /\ latched' = Latch(latched, level, NextStmt)
    /\ trace' = Append(trace, NextStmt)
    /\ w' = [w EXCEPT !.k = @ + 1]
    /\ UNCHANGED <<owner, dir, lock, lockInit, host, lpc, upc, spc, sret,
                   txLog, ioctlKept, ulog>>

\* ------------------------------------------------------------- lcd_init

Ins(op, data, l, v) == [op |-> op, data |-> data, line |-> l, val |-> v]

\* lcd_init with clear sent before displayoff
InitProg_ClearBeforeDisplayoff ==
    << Ins("spin_lock", reset, 0, 0),
       Ins("mdelay", reset, 0, 15),
       Ins("lcd_write", reset, 0, 0),
       Ins("mdelay", reset, 0, 35),
       Ins("lcd_write", startup1, 0, 0),
       Ins("lcd_write", startup2, 0, 0),
       Ins("lcd_write", functionset, 0, 0),
       Ins("lcd_write", clear, 0, 0),
       Ins("lcd_write", displayoff, 0, 0),
       Ins("lcd_write", entry, 0, 0),
       Ins("lcd_write", displayon, 0, 0),
       Ins("lcd_write", home, 0, 0),
       Ins("set", reset, RS, 1),
       Ins("mdelay", reset, 0, 35),
       Ins("lcd_write", a, 0, 0),
       Ins("mdelay", reset, 0, 35),
       Ins("set", reset, RS, 0),
       Ins("spin_unlock", reset, 0, 0) >>

\* lcd_init leaving RS at 1 when it returns
InitProg_RsNotRestored ==
    << Ins("spin_lock", reset, 0, 0),
       Ins("mdelay", reset, 0, 15),
       Ins("lcd_write", reset, 0, 0),
       Ins("mdelay", reset, 0, 35),
       Ins("lcd_write", startup1, 0, 0),
       Ins("lcd_write", startup2, 0, 0),
       Ins("lcd_write", functionset, 0, 0),
       Ins("lcd_write", displayoff, 0, 0),
       Ins("lcd_write", clear, 0, 0),
       Ins("lcd_write", entry, 0, 0),
       Ins("lcd_write", displayon, 0, 0),
       Ins("lcd_write", home, 0, 0),
       Ins("set", reset, RS, 1),
       Ins("mdelay", reset, 0, 35),
       Ins("lcd_write", a, 0, 0),
       Ins("mdelay", reset, 0, 35),
       Ins("set", reset, RS, 1),
       Ins("spin_unlock", reset, 0, 0) >>

\* the statements of lcd_init, in program order
InitProg ==
    << Ins("spin_lock", reset, 0, 0),
       Ins("mdelay", reset, 0, 15),
       Ins("lcd_write", reset, 0, 0),
       Ins("mdelay", reset, 0, 35),
       Ins("lcd_write", startup1, 0, 0),
       Ins("lcd_write", startup2, 0, 0),
       Ins("lcd_write", functionset, 0, 0),
       Ins("lcd_write", displayoff, 0, 0),
       Ins("lcd_write", clear, 0, 0),
       Ins("lcd_write", entry, 0, 0),
       Ins("lcd_write", displayon, 0, 0),
       Ins("lcd_write", home, 0, 0),
       Ins("set", reset, RS, 1),
       Ins("mdelay", reset, 0, 35),
       Ins("lcd_write", a, 0, 0),
       Ins("mdelay", reset, 0, 35),
       Ins("set", reset, RS, 0),
       Ins("spin_unlock", reset, 0, 0) >>

InInit(op) == At(lpc, "lcd_init") /\ InitProg[lpc.i].op = op
\* after statement i of lcd_init: the next one, or back in rpigpio_lcd_minit
AfterInit(i) == IF i = Len(InitProg) THEN Pc("spin_lock_init", 0)
                ELSE Pc("lcd_init", i + 1)

init_spin_lock ==
    /\ InInit("spin_lock")
    /\ lock = NoCtx
    /\ lock' = LoadCtx
    /\ lpc' = AfterInit(lpc.i)
    /\ UNCHANGED <<hw, lockInit, host, upc, spc, sret, w, trace, latched,
                   txLog, ioctlKept, ulog>>

init_mdelay ==
    /\ InInit("mdelay")
    /\ lpc' = AfterInit(lpc.i)
    /\ UNCHANGED <<hw, lock, lockInit, host, upc, spc, sret, w, trace,
                   latched, txLog, ioctlKept, ulog>>

init_call_write ==
    /\ InInit("lcd_write")
    /\ CallWrite(InitProg[lpc.i].data)
    /\ UNCHANGED <<hw, lock, lockInit, host, lpc, upc, spc, sret>>

init_return_write ==
    /\ InInit("lcd_write")
    /\ ReturnWrite
    /\ lpc' = AfterInit(lpc.i)
    /\ UNCHANGED <<hw, lock, lockInit, host, upc, spc, sret>>

init_set_value ==
    /\ InInit("set")
    /\ level' = gpio_set_value(level, InitProg[lpc.i].line, InitProg[lpc.i].val)
    /\ lpc' = AfterInit(lpc.i)
    /\ UNCHANGED <<owner, dir, lock, lockInit, host, upc, spc, sret, w, trace,
                   latched, txLog, ioctlKept, ulog>>

init_spin_unlock ==
    /\ InInit("spin_unlock")
    /\ lock' = NoCtx
    /\ lpc' = AfterInit(lpc.i)
    /\ UNCHANGED <<hw, lockInit, host, upc, spc, sret, w, trace, latched,
                   txLog, ioctlKept, ulog>>

lcd_init ==
    \/ init_spin_lock
    \/ init_mdelay
    \/ init_call_write
    \/ init_return_write
    \/ init_set_value
    \/ init_spin_unlock

\* ------------------------------------------------------------- req_gpio

\* if (gpio_request(n, label)) { printk(...); return -1; }
req_request ==
    /\ At(lpc, "req_gpio")
    /\ LET l == ReqOrder[lpc.i] IN
       IF gpio_request_ok(owner, l)
       THEN /\ owner' = gpio_request(owner, l)
            /\ lpc' = IF lpc.i = NLines THEN Pc("direction", 1)
                      ELSE Pc("req_gpio", lpc.i + 1)
       ELSE /\ owner' = owner
            /\ lpc' = Pc("req_gpio_failed", lpc.i)
    /\ UNCHANGED <<dir, level, lock, lockInit, host, upc, spc, sret, w, trace,
                   latched, txLog, ioctlKept, ulog>>

\* gpio_direction_output(n, 0), then return 0 after the last one
req_direction ==
    /\ At(lpc, "direction")
    /\ LET l == ReqOrder[lpc.i] IN
       /\ dir' = gpio_direction_output(dir, l)
       /\ level' = gpio_set_value(level, l, 0)
    /\ lpc' = IF lpc.i = NLines THEN Pc("lcd_init", 1)
              ELSE Pc("direction", lpc.i + 1)
    /\ UNCHANGED <<owner, lock, lockInit, host, upc, spc, sret, w, trace,
                   latched, txLog, ioctlKept, ulog>>

req_gpio == req_request \/ req_direction

\* ---------------------------------------------------- rpigpio_lcd_minit

minit_register_chrdev ==
    /\ At(lpc, "register_chrdev")
    /\ \E ok \in BOOLEAN :
         IF ok THEN /\ chrdev' = TRUE
                    /\ lpc' = Pc("class_create", 0)
         ELSE /\ chrdev' = FALSE
              /\ lpc' = Pc("failed_chrdev", 0)
    /\ UNCHANGED <<hw, lock, lockInit, lcd_class, devnode, upc, spc, sret, w,
                   trace, latched, txLog, ioctlKept, ulog>>

minit_class_create ==
    /\ At(lpc, "class_create")
    /\ \E ok \in BOOLEAN :
         IF ok THEN /\ lcd_class' = TRUE
                    /\ chrdev' = chrdev
                    /\ lpc' = Pc("device_create", 0)
         ELSE /\ lcd_class' = FALSE
              /\ chrdev' = FALSE
              /\ lpc' = Pc("failed_class", 0)
    /\ UNCHANGED <<hw, lock, lockInit, devnode, upc, spc, sret, w, trace,
                   latched, txLog, ioctlKept, ulog>>

minit_device_create ==
    /\ At(lpc, "device_create")
    /\ \E ok \in BOOLEAN :
         IF ok THEN /\ devnode' = TRUE
                    /\ UNCHANGED <<lcd_class, chrdev>>
                    /\ lpc' = Pc("req_gpio", 1)
         ELSE /\ devnode' = FALSE
              /\ lcd_class' = FALSE
              /\ chrdev' = FALSE
              /\ lpc' = Pc("failed_device", 0)
    /\ UNCHANGED <<hw, lock, lockInit, upc, spc, sret, w, trace, latched,
                   txLog, ioctlKept, ulog>>

\* if (req_gpio() < 0) { class_destroy; unregister_chrdev; return PTR_ERR(dev); }
minit_gpio_failed ==
    /\ At(lpc, "req_gpio_failed")
    /\ lcd_class' = FALSE
    /\ chrdev' = FALSE
    /\ lpc' = Pc("failed_gpio", lpc.i)
    /\ UNCHANGED <<hw, lock, lockInit, devnode, upc, spc, sret, w, trace,
                   latched, txLog, ioctlKept, ulog>>

minit_spin_lock_init ==
    /\ At(lpc, "spin_lock_init")
    /\ lock' = NoCtx
    /\ lockInit' = TRUE
    /\ lpc' = Pc("live", 0)
    /\ UNCHANGED <<hw, host, upc, spc, sret, w, trace, latched, txLog,
                   ioctlKept, ulog>>

rpigpio_lcd_minit ==
    \/ minit_register_chrdev
    \/ minit_class_create
    \/ minit_device_create
    \/ req_gpio
    \/ minit_gpio_failed
    \/ lcd_init
    \/ minit_spin_lock_init

LoadReturned == lpc.at \in {"live", "failed_chrdev", "failed_class",
                            "failed_device", "failed_gpio"}
LoadFailed == LoadReturned /\ ~At(lpc, "live")

\* ------------------------------------------------------ file operations

\* the host reaches lcd_open through the node and the registered major, and
\* refuses to once the module is being removed
CanOpen == chrdev /\ devnode /\ At(upc, "idle")

\* static int lcd_open(...) { return 0; }
lcd_open(s) ==
    /\ At(spc[s], "closed")
    /\ CanOpen
    /\ spc' = [spc EXCEPT ![s] = Pc("open", 0)]
    /\ sret' = [sret EXCEPT ![s] = 0]
    /\ UNCHANGED <<hw, lock, lockInit, host, lpc, upc, w, trace, latched,
                   txLog, ioctlKept, ulog>>

\* lcd_ioctl accepting request 0 as a no-op
lcd_ioctl_AcceptsZero(s, cmd, arg) ==
    /\ At(spc[s], "open")
    /\ UNCHANGED <<hw, lock, lockInit, host, lpc, upc, spc, w, trace, latched,
                   txLog>>
    /\ sret' = [sret EXCEPT ![s] = IF cmd = 0 THEN 0 ELSE -EINVAL]

\* static long lcd_ioctl(...) { return -EINVAL; }
lcd_ioctl(s, cmd, arg) ==
    /\ At(spc[s], "open")
    /\ UNCHANGED <<hw, lock, lockInit, host, lpc, upc, spc, w, trace, latched,
                   txLog>>
    /\ sret' = [sret EXCEPT ![s] = -EINVAL]

\* what spin_unlock by context me leaves in a lock whose value is lk
spin_unlock(lk, me) ==
    IF lk = NoCtx THEN {NoCtx, Skewed} ELSE {NoCtx}

\* spin_lock(&lcd.lock): taken when free; on a skewed lock the caller takes
\* the skipped ticket and spins on it, and the lock is free for the next one
release_spin_lock(s) ==
    /\ At(spc[s], "open")
    /\ lock \in {NoCtx, Skewed}
    /\ lock' = IF lock = NoCtx THEN SessCtx(s) ELSE NoCtx
    /\ spc' = [spc EXCEPT ![s] = IF lock = NoCtx THEN Pc("gpio_free", 1)
                                 ELSE Pc("spin_lock", 0)]
    /\ UNCHANGED <<hw, lockInit, host, lpc, upc, sret, w, trace, latched,
                   txLog, ioctlKept, ulog>>

release_gpio_free(s) ==
    /\ At(spc[s], "gpio_free")
    /\ owner' = gpio_free(owner, ReqOrder[spc[s].i])
    /\ spc' = [spc EXCEPT ![s] = IF spc[s].i = NLines THEN Pc("spin_unlock", 0)
                                 ELSE Pc("gpio_free", spc[s].i + 1)]
    /\ UNCHANGED <<dir, level, lock, lockInit, host, lpc, upc, sret, w, trace,
                   latched, txLog, ioctlKept, ulog>>

\* spin_unlock(&lcd.lock); return 0;
release_spin_unlock(s) ==
    /\ At(spc[s], "spin_unlock")
    /\ lock' \in spin_unlock(lock, SessCtx(s))
    /\ spc' = [spc EXCEPT ![s] = Pc("closed", 0)]
    /\ sret' = [sret EXCEPT ![s] = 0]
    /\ UNCHANGED <<hw, lockInit, host, lpc, upc, w, trace, latched, txLog,
                   ioctlKept, ulog>>

\* a process calls ioctl on its open file; ioctlKept watches what the call does
ioctl_call(s) ==
    \E r \in IoctlReqs :
        /\ lcd_ioctl(s, r.cmd, r.arg)
        /\ UNCHANGED ulog
        /\ ioctlKept' = /\ ioctlKept
                        /\ sret'[s] = -22
                        /\ <<owner, dir, level>>' = <<owner, dir, level>>
                        /\ <<lock, lockInit>>' = <<lock, lockInit>>
                        /\ <<chrdev, lcd_class, devnode>>' =
                               <<chrdev, lcd_class, devnode>>

lcd_release(s) ==
    \/ release_spin_lock(s)
    \/ release_gpio_free(s)
    \/ release_spin_unlock(s)

\* ------------------------------------------------- rpigpio_lcd_mcleanup

\* rmmod runs the exit routine of a live module nobody has open
\* a call made by rpigpio_lcd_mcleanup, on line l if it is a gpio_free
Call(op, l) == [op |-> op, line |-> l]

CanUnload == At(lpc, "live") /\ \A s \in Sessions : At(spc[s], "closed")

mcleanup_call_write ==
    /\ At(upc, "idle")
    /\ CanUnload
    /\ CallWrite(clear)
    /\ upc' = Pc("lcd_write", 0)
    /\ UNCHANGED <<hw, lock, lockInit, host, lpc, spc, sret>>

mcleanup_return_write ==
    /\ At(upc, "lcd_write")
    /\ ReturnWrite
    /\ upc' = Pc("gpio_free", 1)
    /\ UNCHANGED <<hw, lock, lockInit, host, lpc, spc, sret>>

\* rpigpio_lcd_mcleanup freeing line 4 again where it should free line 18
mcleanup_gpio_free_NotE ==
    /\ At(upc, "gpio_free")
    /\ LET l == IF ReqOrder[upc.i] = E THEN RS ELSE ReqOrder[upc.i] IN
       /\ owner' = gpio_free(owner, l)
       /\ ulog' = Append(ulog, Call("gpio_free", l))
    /\ upc' = IF upc.i = NLines THEN Pc("device_destroy", 0)
              ELSE Pc("gpio_free", upc.i + 1)
    /\ UNCHANGED <<dir, level, lock, lockInit, host, lpc, spc, sret, w, trace,
                   latched, txLog, ioctlKept>>

\* gpio_free(4); ... gpio_free(25);
mcleanup_gpio_free ==
    /\ At(upc, "gpio_free")
    /\ owner' = gpio_free(owner, ReqOrder[upc.i])
    /\ ulog' = Append(ulog, Call("gpio_free", ReqOrder[upc.i]))
    /\ upc' = IF upc.i = NLines THEN Pc("device_destroy", 0)
              ELSE Pc("gpio_free", upc.i + 1)
    /\ UNCHANGED <<dir, level, lock, lockInit, host, lpc, spc, sret, w, trace,
                   latched, txLog, ioctlKept>>

mcleanup_device_destroy ==
    /\ At(upc, "device_destroy")
    /\ devnode' = FALSE
    /\ ulog' = Append(ulog, Call("device_destroy", 0))
    /\ upc' = Pc("class_destroy", 0)
    /\ UNCHANGED <<hw, lock, lockInit, chrdev, lcd_class, lpc, spc, sret, w,
                   trace, latched, txLog, ioctlKept>>

mcleanup_class_destroy ==
    /\ At(upc, "class_destroy")
    /\ lcd_class' = FALSE
    /\ ulog' = Append(ulog, Call("class_destroy", 0))
    /\ upc' = Pc("unregister_chrdev", 0)
    /\ UNCHANGED <<hw, lock, lockInit, chrdev, devnode, lpc, spc, sret, w,
                   trace, latched, txLog, ioctlKept>>

mcleanup_unregister_chrdev ==
    /\ At(upc, "unregister_chrdev")
    /\ chrdev' = FALSE
    /\ ulog' = Append(ulog, Call("unregister_chrdev", 0))
    /\ upc' = Pc("removed", 0)
    /\ UNCHANGED <<hw, lock, lockInit, lcd_class, devnode, lpc, spc, sret, w,
                   trace, latched, txLog, ioctlKept>>

rpigpio_lcd_mcleanup ==
    \/ mcleanup_call_write
    \/ mcleanup_return_write
    \/ mcleanup_gpio_free
    \/ mcleanup_device_destroy
    \/ mcleanup_class_destroy
    \/ mcleanup_unregister_chrdev

\* ------------------------------------------------------- specifications

Next ==
    \/ rpigpio_lcd_minit
    \/ lcd_write
    \/ \E s \in Sessions : lcd_open(s)
    \/ \E s \in Sessions : ioctl_call(s)
    \/ \E s \in Sessions : lcd_release(s)
    \/ rpigpio_lcd_mcleanup

Spec == Init /\ [][Next]_vars

\* lcd_write alone, on every 8-bit word: the lines are held and configured as
\* req_gpio leaves them, DB4..DB7 carry whatever an earlier word left there
InitWrite ==
    /\ dir = [l \in Lines |-> "out"]
    /\ level \in {lv \in [Lines -> Bit] : lv[RS] = 0 /\ lv[RW] = 0 /\ lv[E] = 0}
    /\ owner = [l \in Lines |-> "driver"]
    /\ lock = NoCtx
    /\ lockInit = FALSE
    /\ upc = Pc("idle", 0)
    /\ spc = [s \in Sessions |-> Pc("closed", 0)]
    /\ sret = [s \in Sessions |-> 0]
    /\ chrdev = TRUE
    /\ lcd_class = TRUE
    /\ devnode = TRUE
    /\ lpc = Pc("harness", 0)
    /\ w \in {[data |-> d, k |-> 1] : d \in Words}
    /\ trace = <<>>
    /\ latched = <<>>
    /\ txLog = <<[data |-> w.data, rs |-> 0]>>
    /\ ulog = <<>>
    /\ ioctlKept = TRUE

harness_return_write ==
    /\ At(lpc, "harness")
    /\ ReturnWrite
    /\ lpc' = Pc("harness_done", 0)
    /\ UNCHANGED <<hw, lock, lockInit, host, upc, spc, sret>>

NextWrite == lcd_write \/ harness_return_write

SpecWrite == InitWrite /\ [][NextWrite]_vars

\* ---------------------------------------------------------------- claims

SessionStepped(s) == spc'[s] # spc[s]
\* session s takes a step of lcd_open, lcd_ioctl or lcd_release
FileOpStep(s) == SessionStepped(s) \/ sret'[s] # sret[s]
FreeBy(s) == At(spc[s], "gpio_free") /\ SessionStepped(s)
FreeByUnload == At(upc, "gpio_free") /\ upc' # upc
\* the running lcd_write call drives a line in this step
WriteDrives == InWrite /\ w'.k = w.k + 1 /\ NextStmt.op = "set"
\* the context that called the running lcd_write
WriteCtx == IF At(upc, "lcd_write") THEN UnloadCtx ELSE LoadCtx

\* C1: when req_gpio has returned its error, and after module load has
\* returned because of it, the driver holds none of the lines it requested
\* in that attempt.
C1_AtomicAcquire ==
    lpc.at \in {"req_gpio_failed", "failed_gpio"} => Held(owner) = {}

\* C2: after a module load that failed because req_gpio failed, the device
\* node "lcd" does not exist.
C2_NoNodeAfterFailedAcquire ==
    At(lpc, "failed_gpio") => ~devnode

\* C3 (invariant I2): whenever lcd_write drives a data line or the enable
\* line, all seven lines are held by the driver.
C3_TransmitOnlyWhileHeld ==
    [][WriteDrives => Held(owner) = Lines]_vars

\* C4: gpio_free is never called on a line the driver does not hold, in the
\* close path or in the unload path.
C4_NoDoubleRelease ==
    [][/\ \A s \in Sessions :
            FreeBy(s) => owner[ReqOrder[spc[s].i]] = "driver"
       /\ FreeByUnload => owner[ReqOrder[upc.i]] = "driver"]_vars

\* the words of the power-on sequence, with the level of RS at each call
ExpectedInitLog ==
    << [data |-> <<0,0,0,0,0,0,0,0>>, rs |-> 0],
       [data |-> <<0,0,1,1,0,0,1,1>>, rs |-> 0],
       [data |-> <<0,0,1,1,0,0,1,0>>, rs |-> 0],
       [data |-> <<0,0,1,0,0,0,0,0>>, rs |-> 0],
       [data |-> <<0,0,0,0,1,0,0,0>>, rs |-> 0],
       [data |-> <<0,0,0,0,0,0,0,1>>, rs |-> 0],
       [data |-> <<0,0,0,0,0,1,1,0>>, rs |-> 0],
       [data |-> <<0,0,0,0,1,1,1,1>>, rs |-> 0],
       [data |-> <<0,0,0,0,0,0,1,0>>, rs |-> 0],
       [data |-> <<0,1,0,1,0,0,0,1>>, rs |-> 1] >>

IsPrefix(p, q) == Len(p) <= Len(q) /\ SubSeq(q, 1, Len(p)) = p
InitReturned == lpc.at \in {"spin_lock_init", "live"}
\* lcd_init is transmitting its last word, the character payload
SendingPayload ==
    At(lpc, "lcd_init") /\ w.k > 0 /\ Len(txLog) = Len(ExpectedInitLog)

\* C5 (P4): in a load, the words passed to lcd_write are, in this order and
\* each once, reset, startup1, startup2, functionset, displayoff, clear,
\* entry, displayon, home (RS = 0) and then the character payload, sent
\* while RS is 1; once lcd_init has returned all ten have been passed.
C5_InitSequenceOrder ==
    At(upc, "idle") =>
        /\ IsPrefix(txLog, ExpectedInitLog)
        /\ InitReturned => txLog = ExpectedInitLog
        /\ ~At(lpc, "lcd_init") /\ ~InitReturned => txLog = <<>>
        /\ SendingPayload => level[RS] = 1

C5_Witness ==
    /\ At(lpc, "live")
    /\ txLog = ExpectedInitLog
    /\ \E s \in Sessions : ~At(spc[s], "closed")

\* the levels driven on line l, in order, in a trace of lcd_write
RECURSIVE Driven(_, _)
Driven(tr, l) ==
    IF tr = <<>> THEN <<>>
    ELSE IF Head(tr).op = "set" /\ Head(tr).line = l
         THEN <<Head(tr).val>> \o Driven(Tail(tr), l)
         ELSE Driven(Tail(tr), l)

\* the lines driven, in order, in a trace of lcd_write
RECURSIVE DrivenLines(_)
DrivenLines(tr) ==
    IF tr = <<>> THEN <<>>
    ELSE IF Head(tr).op = "set"
         THEN <<Head(tr).line>> \o DrivenLines(Tail(tr))
         ELSE DrivenLines(Tail(tr))

WriteDone == WriteReturning \/ At(lpc, "harness_done")

\* C6 (P2): lcd_write(data) drives DB7, DB6, DB5, DB4 with data[0..3],
\* pulses E once, drives DB7..DB4 with data[4..7] and pulses E once more:
\* the controller latches the high nibble at the first falling edge of E
\* and the low nibble at the second, and E is raised exactly twice.
C6_NibbleOrder ==
    /\ Len(latched) <= 2
    /\ Len(latched) >= 1 =>
           latched[1] = <<w.data[1], w.data[2], w.data[3], w.data[4]>>
    /\ Len(latched) = 2 =>
           latched[2] = <<w.data[5], w.data[6], w.data[7], w.data[8]>>
    /\ WriteDone =>
           /\ Len(latched) = 2
           /\ Driven(trace, 18) = <<1, 0, 1, 0>>
           /\ Driven(trace, 25) = <<w.data[1], w.data[5]>>
           /\ Driven(trace, 24) = <<w.data[2], w.data[6]>>
           /\ Driven(trace, 23) = <<w.data[3], w.data[7]>>
           /\ Driven(trace, 22) = <<w.data[4], w.data[8]>>
           /\ DrivenLines(trace) =
                  <<25, 24, 23, 22, 18, 18, 25, 24, 23, 22, 18, 18>>

C6_Witness ==
    /\ At(lpc, "harness_done")
    /\ w.data = <<0,1,0,1,0,0,0,1>>
    /\ Nibble(level) = <<0,0,0,1>>
    /\ latched = << <<0,1,0,1>>, <<0,0,0,1>> >>

\* C7 (P5): lcd_open requests no line and changes no line, lock or device
\* state; when lcd_release returns the driver holds none of the seven lines.
C7_OpenCloseEffect ==
    [][\A s \in Sessions :
         /\ (At(spc[s], "closed") /\ At(spc'[s], "open")) =>
                UNCHANGED <<owner, dir, level, lock, lockInit, host>>
         /\ (At(spc[s], "spin_unlock") /\ At(spc'[s], "closed")) =>
                Held(owner') = {}]_vars

\* C8 (P6): lcd_ioctl returns -EINVAL for every cmd and arg, in every driver
\* state, and leaves line ownership, directions, levels, the lock and the
\* device state as they are: no call made so far has done otherwise, and
\* -EINVAL is what a process that called it holds.
C8_IoctlInvalidArgument ==
    /\ ioctlKept
    /\ \A s \in Sessions : sret[s] \in {0, -22}

\* an ioctl has returned while the lines were held by a load still running
C8_Witness ==
    \E s \in Sessions :
        /\ At(spc[s], "open")
        /\ sret[s] = -22
        /\ Held(owner) = Lines
        /\ lock = LoadCtx

\* C9: the device node becomes visible only once all seven lines are held
\* and lcd_init has completed, so no open, ioctl or close runs before
\* lcd_init has completed.
C9_LoadOrdering ==
    [][/\ (~devnode /\ devnode') => (Held(owner) = Lines /\ InitReturned)
       /\ \A s \in Sessions : FileOpStep(s) => InitReturned]_vars

\* C10: every gpio_set_value of lcd_write and lcd_init, and every gpio_free
\* of the close and unload paths, runs while its context holds lcd.lock.
C10_GuardCoverage ==
    [][/\ WriteDrives => lock = WriteCtx
       /\ (InInit("set") /\ lpc' # lpc) => lock = LoadCtx
       /\ \A s \in Sessions : FreeBy(s) => lock = SessCtx(s)
       /\ FreeByUnload => lock = UnloadCtx]_vars

\* the contexts that are between a spin_lock they have returned from and
\* the spin_unlock that ends that critical section
InCritical ==
    (IF At(lpc, "lcd_init") /\ lpc.i > 1 THEN {LoadCtx} ELSE {})
    \cup {SessCtx(s) : s \in {x \in Sessions :
                                 spc[x].at \in {"gpio_free", "spin_unlock"}}}

\* C11: at most one context is inside a critical section of lcd.lock at a
\* time, and while lcd_init is inside its own no close is at a gpio_free.
C11_NonInterleaving ==
    /\ Cardinality(InCritical) <= 1
    /\ LoadCtx \in InCritical =>
           \A s \in Sessions : ~At(spc[s], "gpio_free")

\* the module is loaded: load has returned 0 and unload has not begun
Loaded == At(lpc, "live") /\ At(upc, "idle")
\* the sessions that are open and not in lcd_release
OpenSessions == {s \in Sessions : At(spc[s], "open")}

\* C12: while the module is loaded and at least one session is still open,
\* all seven lines are held: only the close of the last open session, or
\* unload, releases them.
C12_LineLifetime ==
    (Loaded /\ OpenSessions # {}) => Held(owner) = Lines

\* a delay of at least 50 microseconds
IsDelay(e) == e.op = "udelay" /\ e.val >= 50
DrivesE(e, v) == e.op = "set" /\ e.line = E /\ e.val = v
\* E was driven by the last statement of lcd_write and no delay has yet run
DelayPending ==
    /\ trace # <<>>
    /\ trace[Len(trace)].op = "set"
    /\ trace[Len(trace)].line = E
\* some context is at a statement that changes or releases a line
LineStepReady ==
    \/ InWrite /\ NextStmt.op = "set"
    \/ InInit("set")
    \/ At(lpc, "direction")
    \/ At(upc, "gpio_free")
    \/ \E s \in Sessions : At(spc[s], "gpio_free")

\* C13 (P3): in every lcd_write, each raising of E is followed by a delay of
\* at least 50 microseconds and then by its lowering, each lowering of E is
\* followed by a delay of at least 50 microseconds, and while such a delay
\* has not yet run the delay is the caller's next statement and no context
\* is at a statement that changes or releases a line.
C13_PulseWidthFloor ==
    /\ \A i \in 1..Len(trace) :
           /\ (trace[i].op = "set" /\ trace[i].line = E /\ i < Len(trace))
                  => IsDelay(trace[i + 1])
           /\ (DrivesE(trace[i], 1) /\ i + 2 <= Len(trace))
                  => DrivesE(trace[i + 2], 0)
    /\ DelayPending =>
           /\ InWrite
           /\ IsDelay(NextStmt)
           /\ ~LineStepReady

\* the payload has been sent whole, with its four delays, while a session
\* is open
C13_Witness ==
    /\ WriteReturning
    /\ At(lpc, "lcd_init")
    /\ w.data = a
    /\ Cardinality({i \in 1..Len(trace) : IsDelay(trace[i])}) = 4
    /\ \E s \in Sessions : At(spc[s], "open")

\* the sessions whose lcd_release is in spin_lock holding a ticket that no
\* spin_unlock will serve: no step of the driver takes them out of it
SpinningForever == {s \in Sessions : At(spc[s], "spin_lock")}

\* C14: lcd.lock is not held by load once lcd_init has returned nor by a
\* session whose lcd_release has returned, and no context is left spinning
\* on the lock for ever.
C14_RunToCompletion ==
    /\ InitReturned => lock # LoadCtx
    /\ \A s \in Sessions : At(spc[s], "closed") => lock # SessCtx(s)
    /\ SpinningForever = {}

\* the number of command words lcd_init sends before the payload
NCommands == Len(ExpectedInitLog) - 1
\* lcd_init is inside a call of lcd_write for one of its command words
SendingCommand ==
    At(lpc, "lcd_init") /\ w.k > 0 /\ Len(txLog) <= NCommands

\* C15: in lcd_init RS is 0 all through the transmission of each of the
\* nine command words, is 1 only once home has been transmitted whole and
\* all through the transmission of the payload, and is 0 again when
\* lcd_init unlocks and after it has returned; no statement of lcd_write
\* drives RS, so RS keeps through a call the level it had on entry.
C15_RegisterSelect ==
    /\ SendingCommand => level[RS] = 0
    /\ level[RS] = 1 =>
           /\ At(lpc, "lcd_init")
           /\ ~InInit("spin_unlock")
           /\ Len(txLog) >= NCommands
           /\ txLog[NCommands].data = home
           /\ Len(txLog) = NCommands => w.k = 0
    /\ SendingPayload => level[RS] = 1
    /\ \A i \in 1..Len(trace) : trace[i].line # RS
    /\ w.k > 0 => level[RS] = txLog[Len(txLog)].rs

\* half of the payload has been sent, with RS at 1
C15_Witness ==
    /\ SendingPayload
    /\ level[RS] = 1
    /\ Len(latched) = 1
    /\ txLog[NCommands] = [data |-> home, rs |-> 0]

\* req_gpio returns 0 in this step: its last gpio_direction_output is done
ReqGpioReturns0 ==
    At(lpc, "direction") /\ lpc.i = NLines /\ lpc' # lpc
\* req_gpio has returned -1
ReqGpioFailed == lpc.at \in {"req_gpio_failed", "failed_gpio"}

\* C16: whenever req_gpio returns 0 all seven lines are held by the driver
\* and each is an output at level 0; and in a call in which a request failed
\* no line's direction has been set.
C16_AcquirePostState ==
    [][/\ ReqGpioReturns0 =>
              /\ Held(owner') = Lines
              /\ \A l \in Lines : dir'[l] = "out" /\ level'[l] = 0
       /\ ReqGpioFailed => \A l \in Lines : dir[l] = "unset"]_vars

\* the lines req_gpio has requested before its i-th request
RequestedBefore(i) == {ReqOrder[j] : j \in 1..(i - 1)}
\* req_gpio has returned -1 because its request for line 18 failed
FailedOnE == ReqGpioFailed /\ ReqOrder[lpc.i] = E

\* C17: when req_gpio's request for line 18 fails, lines 4, 17, 22, 23, 24
\* and 25 have all been requested already, and once acquisition has failed
\* none of them is held by the driver.
C17_AcquisitionOrder ==
    FailedOnE =>
        /\ RequestedBefore(lpc.i) = Lines \ {E}
        /\ Held(owner) = {}

\* what unload destroys once the lines are freed, in program order
DestroyOrder == <<"device_destroy", "class_destroy", "unregister_chrdev">>
\* what lcd_write has been called with once unload has called it
UnloadTxLog == Append(ExpectedInitLog, [data |-> clear, rs |-> 0])

\* C18: rpigpio_lcd_mcleanup calls lcd_write once, with clear and while RS
\* is 0; while that call runs it has freed nothing; then it frees each of
\* the seven lines, none twice, then destroys the device node, the class and
\* the registration in this order; from the seventh gpio_free on, and
\* after unload, the driver holds no line.
C18_ModuleUnload ==
    /\ At(upc, "idle") => ulog = <<>>
    /\ ~At(upc, "idle") => txLog = UnloadTxLog
    /\ At(upc, "lcd_write") => ulog = <<>>
    /\ ulog # <<>> => w.k = 0 /\ trace = WriteOps(clear)
    /\ \A i \in 1..Len(ulog) :
           /\ \A j \in 1..Len(ulog) : ulog[i] = ulog[j] => i = j
           /\ i <= NLines => ulog[i].op = "gpio_free" /\ ulog[i].line \in Lines
           /\ i > NLines => ulog[i].op = DestroyOrder[i - NLines]
    /\ Len(ulog) >= NLines => Held(owner) = {}
    /\ ~At(upc, "idle") =>
           /\ Len(ulog) < NLines + 1 => devnode
           /\ Len(ulog) < NLines + 2 => lcd_class
           /\ Len(ulog) < NLines + 3 => chrdev
    /\ At(upc, "removed") =>
           /\ Len(ulog) = NLines + Len(DestroyOrder)
           /\ ~devnode /\ ~lcd_class /\ ~chrdev

\* unload has freed three lines that were held until then and is about to
\* free line 22, still held
C18_Witness ==
    /\ At(upc, "gpio_free")
    /\ Len(ulog) = 3
    /\ Held(owner) = {DB4, DB5, DB6, DB7}
    /\ txLog = UnloadTxLog

\* lcd.lock is written by spin_lock_init in this step
LockInitStep == At(lpc, "spin_lock_init") /\ lpc' # lpc

\* C19: lcd.lock is held only once spin_lock_init has run on it, and
\* spin_lock_init does not run while a context holds the lock or is inside
\* one of its critical sections.
C19_LockInitFirst ==
    [][/\ lock' # NoCtx => lockInit'
       /\ LockInitStep => (lock = NoCtx /\ InCritical = {})]_vars

\* a statement that changes RS or one of DB4..DB7 is the next of its context
DataStepReady ==
    \/ InWrite /\ NextStmt.op = "set" /\ NextStmt.line # E
    \/ InInit("set")
\* entry to lcd_write, or its return
WriteEdge == w.k = 1 \/ WriteReturning

\* C20: as long as no close has released a line after a successful load, E
\* is 0 on entry to and on return from every lcd_write, every statement
\* that changes RS or a data line finds E at 0, and while E is 1 the
\* caller's next statement is the delay or the lowering of E.
C20_EnableDiscipline ==
    (InitReturned \/ At(lpc, "lcd_init")) /\ Held(owner) = Lines =>
        /\ WriteEdge => level[E] = 0
        /\ DataStepReady => level[E] = 0
        /\ level[E] = 1 =>
               /\ InWrite
               /\ NextStmt.op = "udelay" \/ NextStmt = Ev("set", E, 0)

\* E is high in the middle of the payload, all lines held, a session open
C20_Witness ==
    /\ SendingPayload
    /\ level[E] = 1
    /\ Len(latched) = 1
    /\ Held(owner) = Lines
    /\ \E s \in Sessions : At(spc[s], "open")

====
